---- MODULE Spec2Model ----
(***************************************************************************)
(* A model of code-collector.py: the ignore-rule loader                    *)
(* (load_ignore_config), the glob test (is_ignored, over fnmatch) and the  *)
(* tree walk with its per-file emitter (collect_code), followed by the     *)
(* entry point's exit.                                                      *)
(*                                                                         *)
(* Strings are sequences of one-character strings, so that strip, lower,   *)
(* startswith/endswith and glob matching are computed and not assumed.     *)
(* A path is a sequence of components; an absolute path is the sequence of *)
(* components below the filesystem root "/" (the empty sequence is "/").   *)
(***************************************************************************)
EXTENDS Integers, Sequences, FiniteSets, TLC

\* ------------------------------------------------------------ bounds
\* Longest configuration file, in lines.
MaxLines == 3
\* Most environment I/O faults (read or write errors) injected in one run.
MaxFaults == 1

\* ------------------------------------------------------------ strings
UpperChars ==
    <<"A","B","C","D","E","F","G","H","I","J","K","L","M",
      "N","O","P","Q","R","S","T","U","V","W","X","Y","Z">>

LowerChars ==
    <<"a","b","c","d","e","f","g","h","i","j","k","l","m",
      "n","o","p","q","r","s","t","u","v","w","x","y","z">>

\* The ASCII characters the model orders (for [a-c] ranges), in code order.
OrderedChars ==
    <<"!","#","*","-",".","0","1","2","3","4","5","6","7","8","9","?">>
    \o UpperChars \o <<"[","]","^","_">> \o LowerChars \o <<"~">>

\* A file-name character outside UTF-8: a lone surrogate, as os.walk returns
\* for an undecodable byte of a file name (surrogateescape).
Surrogate == "U+DCFF"

\* str.isspace() characters that str.strip() removes.
Whitespace == {" ", "\t", "\n", "\r"}

IndexOf(seq, c) ==
    IF \E i \in 1..Len(seq) : seq[i] = c
    THEN CHOOSE i \in 1..Len(seq) : seq[i] = c
    ELSE 0

\* ord(c), as far as the model compares characters.
Ord(c) == IndexOf(OrderedChars, c)

\* str.lower() on one character.
LowerChar(c) ==
    IF IndexOf(UpperChars, c) > 0 THEN LowerChars[IndexOf(UpperChars, c)] ELSE c

\* str.lower()
Lower(s) == [i \in 1..Len(s) |-> LowerChar(s[i])]

RECURSIVE LStrip(_)
LStrip(s) ==
    IF s # <<>> /\ Head(s) \in Whitespace THEN LStrip(Tail(s)) ELSE s

RECURSIVE RStrip(_)
RStrip(s) ==
    IF s # <<>> /\ s[Len(s)] \in Whitespace
    THEN RStrip(SubSeq(s, 1, Len(s) - 1))
    ELSE s

\* str.strip()
Strip(s) == RStrip(LStrip(s))

\* str.startswith / str.endswith for a one-character argument, and for "\n".
StartsWith(s, c) == s # <<>> /\ s[1] = c

EndsWith(s, c) == s # <<>> /\ s[Len(s)] = c

LowerSet(S) == {Lower(p) : p \in S}

\* ------------------------------------------------------------ configuration
CONFIG_FILENAME == <<".","c","o","d","e","_","c","o","l","l","e","c","t","o","r","_","i","g","n","o","r","e">>

OUTPUT_FILENAME == <<"c","o","l","l","e","c","t","e","d","_","c","o","d","e",".","t","x","t">>

\* ROOT_DIR = ".": the current directory, no component.
ROOT_DIR == <<>>

DEFAULT_IGNORED_FOLDERS ==
    { <<"n","o","d","e","_","m","o","d","u","l","e","s">>
    , <<"b","u","i","l","d">>
    , <<"d","i","s","t">>
    , <<"p","u","b","l","i","c">>
    , <<"s","t","a","t","i","c">>
    , <<"v","e","n","d","o","r">>
    , <<"v","e","n","v">>
    , <<".","v","e","n","v">>
    , <<"e","n","v">>
    , <<".","e","n","v">>
    , <<"_","_","p","y","c","a","c","h","e","_","_">>
    , <<".","g","i","t">>
    , <<".","s","v","n">>
    , <<".","h","g">>
    , <<".","v","s","c","o","d","e">>
    , <<".","i","d","e","a">>
    , <<"t","a","r","g","e","t">>
    , <<"o","u","t">>
    , <<"b","i","n">>
    , <<"o","b","j">>
    , <<"l","o","g","s">>
    , <<"t","m","p">>
    , <<"t","e","m","p">>
    , <<"c","o","v","e","r","a","g","e">>
    }

DEFAULT_IGNORED_PATTERNS ==
    { <<"*",".","c","o","n","f","i","g",".","j","s">>
    , <<"*",".","c","o","n","f","i","g",".","t","s">>
    , <<"*",".","j","p","g">>
    , <<"*",".","j","p","e","g">>
    , <<"*",".","p","n","g">>
    , <<"*",".","g","i","f">>
    , <<"*",".","b","m","p">>
    , <<"*",".","s","v","g">>
    , <<"*",".","t","i","f">>
    , <<"*",".","t","i","f","f">>
    , <<"*",".","m","p","4">>
    , <<"*",".","m","k","v">>
    , <<"*",".","a","v","i">>
    , <<"*",".","m","o","v">>
    , <<"*",".","w","m","v">>
    , <<"*",".","f","l","v">>
    , <<"*",".","m","p","3">>
    , <<"*",".","w","a","v">>
    , <<"*",".","o","g","g">>
    , <<"*",".","f","l","a","c">>
    , <<"*",".","a","a","c">>
    , <<"*",".","w","e","b","p">>
    , <<"*",".","i","c","o">>
    , <<"*",".","z","i","p">>
    , <<"*",".","t","a","r">>
    , <<"*",".","g","z">>
    , <<"*",".","b","z","2">>
    , <<"*",".","r","a","r">>
    , <<"*",".","7","z">>
    , <<"*",".","w","h","l">>
    , <<"*",".","j","s","o","n">>
    , <<"*",".","y","a","m","l">>
    , <<"*",".","y","m","l">>
    , <<"*",".","t","o","m","l">>
    , <<"*",".","i","n","i">>
    , <<"*",".","c","f","g">>
    , <<".","c","o","n","f">>
    , <<"*",".","x","m","l">>
    , <<"*",".","c","s","v">>
    , <<"*",".","t","s","v">>
    , <<"*",".","l","o","c","k">>
    , <<"y","a","r","n",".","l","o","c","k">>
    , <<"p","a","c","k","a","g","e","-","l","o","c","k",".","j","s","o","n">>
    , <<"c","o","m","p","o","s","e","r",".","l","o","c","k">>
    , <<"p","o","e","t","r","y",".","l","o","c","k">>
    , <<".","g","i","t","i","g","n","o","r","e">>
    , <<".","g","i","t","a","t","t","r","i","b","u","t","e","s">>
    , <<".","g","i","t","m","o","d","u","l","e","s">>
    , <<".","e","n","v">>
    , <<".","e","n","v",".","e","x","a","m","p","l","e">>
    , <<".","e","n","v",".","*">>
    , <<".","p","r","e","t","t","i","e","r","r","c">>
    , <<".","p","r","e","t","t","i","e","r","i","g","n","o","r","e">>
    , <<"*",".","p","y","c">>
    , <<"*",".","p","y","o">>
    , <<"*",".","c","l","a","s","s">>
    , <<"*",".","j","a","r">>
    , <<"*",".","o">>
    , <<"*",".","s","o">>
    , <<"*",".","d","l","l">>
    , <<"*",".","a">>
    , <<"*",".","l","i","b">>
    , <<"*",".","e","x","e">>
    , <<"*",".","a","p","p">>
    , <<"*",".","d","m","g">>
    , <<"*",".","p","k","g">>
    , <<"*",".","p","d","f">>
    , <<"*",".","d","o","c">>
    , <<"*",".","d","o","c","x">>
    , <<"*",".","x","l","s">>
    , <<"*",".","x","l","s","x">>
    , <<"*",".","p","p","t">>
    , <<".","p","p","t","x">>
    , <<"*",".","o","d","t">>
    , <<"*",".","o","d","s">>
    , <<"*",".","o","d","p">>
    , <<"*",".","w","a","s","m">>
    , <<"*",".","d","b">>
    , <<"*",".","s","q","l","i","t","e">>
    , <<"*",".","s","q","l","i","t","e","3">>
    , <<"*",".","s","q","l">>
    , <<"*",".","l","o","g">>
    , <<"*",".","t","m","p">>
    , <<"*",".","t","e","m","p">>
    , <<"*",".","b","a","k">>
    , <<"*",".","s","w","p">>
    , <<"*",".","s","w","o">>
    , <<"*","~">>
    , <<"*",".","m","d">>
    , <<"*",".","m","a","r","k","d","o","w","n">>
    , <<"*",".","i","p","y","n","b">>
    , <<"*",".","o","t","f">>
    , <<"*",".","d",".","t","s">>
    }

\* ------------------------------------------------------------ fnmatch
\* fnmatch.fnmatch on POSIX (normcase is the identity there): "*" any run of
\* characters, "?" any one character, "[seq]" one character of seq, "[!seq]"
\* one character not in seq, a "]" right after "[" or "[!" is literal, "a-c"
\* in seq is a range, a "[" that no "]" closes is a literal "[".

\* The index of the "]" closing the class opened just before position i of
\* pat (i is the first position after "["), or 0 when the class is unclosed.
RECURSIVE ScanClose(_, _)
ScanClose(pat, j) ==
    IF j > Len(pat) THEN 0
    ELSE IF pat[j] = "]" THEN j
    ELSE ScanClose(pat, j + 1)

ClassClose(pat, i) ==
    LET j1 == IF i <= Len(pat) /\ pat[i] = "!" THEN i + 1 ELSE i
        j2 == IF j1 <= Len(pat) /\ pat[j1] = "]" THEN j1 + 1 ELSE j1
    IN  ScanClose(pat, j2)

\* Whether character c is in the class body stuff (negation mark removed).
RECURSIVE InClassBody(_, _)
InClassBody(c, stuff) ==
    IF stuff = <<>> THEN FALSE
    ELSE IF Len(stuff) >= 3 /\ stuff[2] = "-"
    THEN \/ (Ord(stuff[1]) <= Ord(c) /\ Ord(c) <= Ord(stuff[3]) /\ Ord(c) > 0)
         \/ InClassBody(c, SubSeq(stuff, 4, Len(stuff)))
    ELSE \/ c = stuff[1]
         \/ InClassBody(c, Tail(stuff))

\* One character against the class text between "[" and its closing "]".
ClassMatches(c, stuff) ==
    IF stuff = <<>> THEN FALSE
    ELSE IF stuff = <<"!">> THEN TRUE
    ELSE IF stuff[1] = "!" THEN ~InClassBody(c, Tail(stuff))
    ELSE InClassBody(c, stuff)

RECURSIVE FnMatchFrom(_, _, _, _)
FnMatchFrom(name, pat, n, p) ==
    IF p > Len(pat) THEN n > Len(name)
    ELSE IF pat[p] = "*"
    THEN \/ FnMatchFrom(name, pat, n, p + 1)
         \/ (n <= Len(name) /\ FnMatchFrom(name, pat, n + 1, p))
    ELSE IF n > Len(name) THEN FALSE
    ELSE IF pat[p] = "?" THEN FnMatchFrom(name, pat, n + 1, p + 1)
    ELSE IF pat[p] = "[" /\ ClassClose(pat, p + 1) > 0
    THEN /\ ClassMatches(name[n], SubSeq(pat, p + 1, ClassClose(pat, p + 1) - 1))
         /\ FnMatchFrom(name, pat, n + 1, ClassClose(pat, p + 1) + 1)
    ELSE name[n] = pat[p] /\ FnMatchFrom(name, pat, n + 1, p + 1)

FnMatch(name, pat) == FnMatchFrom(name, pat, 1, 1)

\* is_ignored without line 132: the name is matched as it is spelled.
is_ignored_as_spelled(filename, patterns) ==
    \E pattern \in patterns : FnMatch(filename, pattern)

\* is_ignored(filename, ignored_patterns)
is_ignored(filename, patterns) ==
    LET filename_lower == Lower(filename)
    IN  \E pattern \in patterns : FnMatch(filename_lower, pattern)

\* ------------------------------------------------------------ state
VARIABLES
    \* load_ignore_config: its arguments and the file behind config_path
    default_folders, default_patterns, config_exists, config_lines,
    \* load_ignore_config: its position, its section, what it handed back
    current_section, line_num, lpc, load_result,
    \* the two sets: load_ignore_config's locals, collect_code's arguments
    ignored_folders, ignored_patterns,
    \* collect_code: the process's directory and standard output, the other
    \* arguments, the running script, whether the tree holds a file whose
    \* name is not UTF-8
    cwd, stdout_strict, root_dir, output_file, script_path, bad_name,
    \* collect_code: position, os.walk's pending directories, the directory
    \* and the files the loops are at, the output file's text, the counter,
    \* the value returned, the process's exit status, the I/O faults so far
    cpc, stack, current_dir, files, output, collected_count, result,
    exit_status, faults,
    \* history: directories os.walk yielded, files handed to the inner loop
    \* (and those a walk without lines 179-184 would hand over), whether
    \* line 184 was ever taken, files skipped at 211 and at 216, files opened
    \* for reading, complete records in the output
    visited, candidates, candidates_nocheck, secondary_taken, skipped_self,
    skipped_pattern, opened, records

loadVars ==
    <<default_folders, default_patterns, config_exists, config_lines,
      current_section, line_num, lpc, load_result>>

ignoreVars == <<ignored_folders, ignored_patterns>>

argVars == <<cwd, stdout_strict, root_dir, output_file, script_path, bad_name>>

runVars ==
    <<cpc, stack, current_dir, files, output, collected_count, result,
      exit_status, faults>>

histVars ==
    <<visited, candidates, candidates_nocheck, secondary_taken, skipped_self,
      skipped_pattern, opened, records>>

collectVars == <<argVars, runVars, histVars>>

vars == <<loadVars, ignoreVars, collectVars>>

\* ------------------------------------------------------------ load_ignore_config
\* The lines a configuration file is made of, as the file iterator yields
\* them (with their line ends).
ConfigLineChoices ==
    { <<"[","f","o","l","d","e","r","s","]","\n">>
    , <<" ","[","P","a","t","t","e","r","n","s","]"," ","\n">>
    , <<"[","o","t","h","e","r","]","\n">>
    , <<"#"," ","[","f","o","l","d","e","r","s","]","\n">>
    , <<" ","\n">>
    , <<" ","F","o","o"," ","\n">>
    , <<"*",".","S","e","c","r","e","t","\n">>
    , <<"[","x">>
    }

RECURSIVE SeqsUpTo(_, _)
SeqsUpTo(S, n) ==
    IF n = 0 THEN {<<>>}
    ELSE LET shorter == SeqsUpTo(S, n - 1)
         IN  shorter \cup {Append(s, x) : s \in {t \in shorter : Len(t) = n - 1}, x \in S}

\* The default sets a caller passes: the program's own, and a small pair with
\* upper-case letters in it.
DefaultChoices ==
    { [folders |-> DEFAULT_IGNORED_FOLDERS, patterns |-> DEFAULT_IGNORED_PATTERNS]
    , [folders |-> {<<"B","i","n">>}, patterns |-> {<<"*",".","P","N","G">>}]
    }

NoResult == [status |-> "none", folders |-> {}, patterns |-> {}, error |-> FALSE]

\* ProcessLine without line 110: an unknown section header leaves the
\* section in force.
ProcessLineNoReset(raw, section, folders, patterns) ==
    LET line == Strip(raw)
        same == [section |-> section, folders |-> folders, patterns |-> patterns]
    IN  IF line = <<>> \/ StartsWith(line, "#") THEN same
        ELSE IF Lower(line) = <<"[","f","o","l","d","e","r","s","]">>
        THEN [same EXCEPT !.section = "folders"]
        ELSE IF Lower(line) = <<"[","p","a","t","t","e","r","n","s","]">>
        THEN [same EXCEPT !.section = "patterns"]
        ELSE IF StartsWith(line, "[") /\ EndsWith(line, "]") THEN same
        ELSE IF section = "folders"
        THEN [same EXCEPT !.folders = folders \cup {line}]
        ELSE IF section = "patterns"
        THEN [same EXCEPT !.patterns = patterns \cup {Lower(line)}]
        ELSE same

\* One pass of the loop body at lines 97-120 over the raw line: the section
\* and the two sets after it.
ProcessLine(raw, section, folders, patterns) ==
    LET line == Strip(raw)
        same == [section |-> section, folders |-> folders, patterns |-> patterns]
    IN  IF line = <<>> \/ StartsWith(line, "#") THEN same
        ELSE IF Lower(line) = <<"[","f","o","l","d","e","r","s","]">>
        THEN [same EXCEPT !.section = "folders"]
        ELSE IF Lower(line) = <<"[","p","a","t","t","e","r","n","s","]">>
        THEN [same EXCEPT !.section = "patterns"]
        ELSE IF StartsWith(line, "[") /\ EndsWith(line, "]")
        THEN [same EXCEPT !.section = "None"]
        ELSE IF section = "folders"
        THEN [same EXCEPT !.folders = folders \cup {line}]
        ELSE IF section = "patterns"
        THEN [same EXCEPT !.patterns = patterns \cup {Lower(line)}]
        ELSE same

\* Lines 88-90: the file does not exist, the defaults are returned.
LoadMissing ==
    /\ lpc = "start"
    /\ ~config_exists
    /\ lpc' = "returned"
    /\ load_result' = [status |-> "returned", folders |-> ignored_folders,
                       patterns |-> ignored_patterns, error |-> FALSE]
    /\ UNCHANGED collectVars
    /\ UNCHANGED <<default_folders, default_patterns, config_exists, config_lines,
                   ignored_folders, ignored_patterns, current_section, line_num>>

\* Lines 92-95: the file is opened and the loop is entered.
LoadOpen ==
    /\ lpc = "start"
    /\ config_exists
    /\ lpc' = "reading"
    /\ current_section' = "None"
    /\ UNCHANGED collectVars
    /\ UNCHANGED <<default_folders, default_patterns, config_exists, config_lines,
                   ignored_folders, ignored_patterns, line_num, load_result>>

\* The handler at lines 123-125, shared by a failed open and a failed read.
RevertToDefaults ==
    [status |-> "returned", folders |-> default_folders,
     patterns |-> LowerSet(default_patterns), error |-> TRUE]

\* Line 94 raises IOError (permissions, a directory, a file removed since the
\* exists test): lines 123-125.
LoadOpenFails ==
    /\ lpc = "start"
    /\ config_exists
    /\ lpc' = "returned"
    /\ load_result' = RevertToDefaults
    /\ UNCHANGED collectVars
    /\ UNCHANGED <<default_folders, default_patterns, config_exists, config_lines,
                   ignored_folders, ignored_patterns, current_section, line_num>>

\* Lines 96-120: one line of the file.
LoadLine ==
    /\ lpc = "reading"
    /\ line_num < Len(config_lines)
    /\ LET r == ProcessLine(config_lines[line_num + 1], current_section,
                            ignored_folders, ignored_patterns)
       IN  /\ current_section' = r.section
           /\ ignored_folders' = r.folders
           /\ ignored_patterns' = r.patterns
    /\ line_num' = line_num + 1
    /\ UNCHANGED collectVars
    /\ UNCHANGED <<default_folders, default_patterns, config_exists, config_lines,
                   lpc, load_result>>

\* Line 96 raises IOError while the file is read: lines 123-125.
LoadReadFails ==
    /\ lpc = "reading"
    /\ lpc' = "returned"
    /\ load_result' = RevertToDefaults
    /\ UNCHANGED collectVars
    /\ UNCHANGED <<default_folders, default_patterns, config_exists, config_lines,
                   ignored_folders, ignored_patterns, current_section, line_num>>

\* Line 96 raises UnicodeDecodeError (the file holds bytes that are not
\* UTF-8). It is a ValueError, not an IOError: line 123 does not catch it and
\* it leaves load_ignore_config.
LoadDecodeFails ==
    /\ lpc = "reading"
    /\ lpc' = "raised"
    /\ load_result' = [status |-> "raised", folders |-> {}, patterns |-> {},
                       error |-> TRUE]
    /\ UNCHANGED collectVars
    /\ UNCHANGED <<default_folders, default_patterns, config_exists, config_lines,
                   ignored_folders, ignored_patterns, current_section, line_num>>

\* Lines 127-128: the file is exhausted.
LoadDone ==
    /\ lpc = "reading"
    /\ line_num = Len(config_lines)
    /\ lpc' = "returned"
    /\ load_result' = [status |-> "returned", folders |-> ignored_folders,
                       patterns |-> ignored_patterns, error |-> FALSE]
    /\ UNCHANGED collectVars
    /\ UNCHANGED <<default_folders, default_patterns, config_exists, config_lines,
                   ignored_folders, ignored_patterns, current_section, line_num>>

\* ------------------------------------------------------------ paths
\* os.path.abspath of a relative path (no "." or ".." component in it).
AbsPath(p) == cwd \o p

\* os.path.basename: "" for the filesystem root.
BaseName(path) == IF path = <<>> THEN <<>> ELSE path[Len(path)]

DirName(path) == SubSeq(path, 1, Len(path) - 1)

\* os.path.relpath(path, start) for a path beneath start.
RelPath(path, start) == SubSeq(path, Len(start) + 1, Len(path))

\* Components joined by os.sep, which is "/" on POSIX (so that line 203's
\* replace changes nothing there).
RECURSIVE JoinPath(_)
JoinPath(parts) ==
    IF parts = <<>> THEN <<>>
    ELSE IF Len(parts) = 1 THEN parts[1]
    ELSE parts[1] \o <<"/">> \o JoinPath(Tail(parts))

\* Line 141.
abs_root_dir == AbsPath(root_dir)

\* Lines 143-153.
root_folder_name ==
    LET name == BaseName(abs_root_dir)
    IN  IF name = <<>> /\ abs_root_dir = <<>> THEN <<>>
        ELSE IF name = <<>> THEN <<".">>
        ELSE name

\* Lines 189-203.
output_display_path(file_path) ==
    LET relative_path == RelPath(file_path, abs_root_dir)
    IN  IF root_folder_name # <<>> /\ root_folder_name # <<".">>
        THEN JoinPath(<<root_folder_name>> \o relative_path)
        ELSE JoinPath(relative_path)

\* Whether text can be encoded as UTF-8 (strict): no lone surrogate in it.
Encodable(text) == \A i \in 1..Len(text) : text[i] # Surrogate

\* ------------------------------------------------------------ the file system
N_a == <<"a",".","p","y">>

N_BLOG == <<"B",".","L","O","G">>

N_cc == <<"c","c",".","p","y">>

N_bad == <<"b",Surrogate,".","p","y">>

N_build == <<"b","u","i","l","d">>

N_sub == <<"s","u","b">>

N_y == <<"y",".","p","y">>

N_pkg == <<"p","k","g">>

N_zbin == <<"z",".","b","i","n">>

N_w == <<"w",".","p","y">>

N_out == <<"o","u","t",".","t","x","t">>

N_nodir == <<"n","o","d","i","r">>

N_proj == <<"p","r","o","j">>

\* A byte that starts no UTF-8 sequence, and the character latin-1 gives it.
ByteFF == "0xFF"

CharFF == "U+00FF"

\* The tree under the process's directory, as scandir lists it: for each
\* directory (relative to cwd) its subdirectories and its files.
TreeListing(rel) ==
    IF rel = <<>>
    THEN [dirs |-> <<N_build, N_pkg>>,
          files |-> <<N_a>> \o (IF bad_name THEN <<N_bad>> ELSE <<>>)
                    \o <<N_BLOG, CONFIG_FILENAME, N_cc>>]
    ELSE IF rel = <<N_build>> THEN [dirs |-> <<N_sub>>, files |-> <<>>]
    ELSE IF rel = <<N_build, N_sub>> THEN [dirs |-> <<>>, files |-> <<N_y>>]
    ELSE IF rel = <<N_pkg>>
    THEN [dirs |-> <<N_build>>, files |-> <<N_zbin, OUTPUT_FILENAME>>]
    ELSE IF rel = <<N_pkg, N_build>> THEN [dirs |-> <<>>, files |-> <<N_w>>]
    ELSE [dirs |-> <<>>, files |-> <<>>]

TreeDirs == {<<>>, <<N_build>>, <<N_build, N_sub>>, <<N_pkg>>, <<N_pkg, N_build>>}

\* The bytes of the tree's files (relative to cwd).
TreeBytes(rel) ==
    IF rel = <<N_a>> THEN <<"x">>
    ELSE IF rel = <<N_pkg, N_zbin>> THEN <<ByteFF, "\n">>
    ELSE IF rel = <<N_pkg, OUTPUT_FILENAME>> THEN <<>>
    ELSE IF rel = <<N_pkg, N_build, N_w>> THEN <<"\n">>
    ELSE <<"x", "\n">>

IsDir(path) ==
    /\ Len(path) >= Len(cwd)
    /\ SubSeq(path, 1, Len(cwd)) = cwd
    /\ RelPath(path, cwd) \in TreeDirs

\* What scandir lists for a directory once line 166 has created the output
\* file there.
Listing(dir) ==
    LET l == TreeListing(RelPath(dir, cwd))
        out == AbsPath(output_file)
        created ==
            /\ DirName(out) = dir
            /\ \A i \in 1..Len(l.files) : l.files[i] # BaseName(out)
    IN  [dirs |-> l.dirs,
         files |-> IF created THEN Append(l.files, BaseName(out)) ELSE l.files]

\* The bytes a read of the file finds; line 166 truncated the output file.
FileBytes(path) ==
    IF path = AbsPath(output_file) THEN <<>> ELSE TreeBytes(RelPath(path, cwd))

\* bytes.decode("utf-8", "strict") succeeds.
Utf8Decodable(bytes) == \A i \in 1..Len(bytes) : bytes[i] # ByteFF

\* bytes.decode("latin-1"): every byte is a character.
DecodeLatin1(bytes) ==
    [i \in 1..Len(bytes) |-> IF bytes[i] = ByteFF THEN CharFF ELSE bytes[i]]

\* ------------------------------------------------------------ collect_code
SepLen == 70

\* "=" * 70 + "\n"
Sep == [i \in 1..SepLen |-> "="] \o <<"\n">>

ErrReadContent == <<"[","E","r","r","o","r"," ","r","e","a","d","i","n","g"," ","f","i","l","e"," ","c","o","n","t","e","n","t",":"," ","E","]">>

ErrRead == <<"[","E","r","r","o","r"," ","r","e","a","d","i","n","g"," ","f","i","l","e",":"," ","E","]">>

ErrNoContent == <<"[","E","r","r","o","r",":"," ","C","o","u","l","d"," ","n","o","t"," ","r","e","a","d"," ","f","i","l","e"," ","c","o","n","t","e","n","t","]">>

ErrUnexpected == <<"[","U","n","e","x","p","e","c","t","e","d"," ","e","r","r","o","r"," ","d","u","r","i","n","g"," ","p","r","o","c","e","s","s","i","n","g",":"," ","E","]">>

HeaderLine(display) == <<"F","i","l","e",":"," ">> \o display \o <<"\n">>

Some(text) == [isNone |-> FALSE, text |-> text]

\* Lines 221-235: the values content can take for the file, each with the
\* number of I/O faults it takes (0: the file reads as it is).
ReadOutcomes(path) ==
    LET bytes == FileBytes(path)
    IN  (IF Utf8Decodable(bytes)
         THEN {[content |-> Some(bytes), cost |-> 0]}
         ELSE {[content |-> Some(DecodeLatin1(bytes)), cost |-> 0],
               [content |-> Some(ErrReadContent), cost |-> 1]})
        \cup {[content |-> Some(ErrRead), cost |-> 1]}

\* PrimaryWrites with line 243's test dropped: a newline is always added.
PrimaryWritesAlwaysNewline(display, content) ==
    <<Sep, HeaderLine(display), Sep,
      IF content.isNone THEN ErrNoContent ELSE content.text,
      <<"\n">>, <<"\n">> >>

\* Lines 238-245: the strings written for a record, in order.
PrimaryWrites(display, content) ==
    <<Sep, HeaderLine(display), Sep,
      IF content.isNone THEN ErrNoContent ELSE content.text>>
    \o (IF ~content.isNone /\ ~EndsWith(content.text, "\n")
        THEN << <<"\n">> >> ELSE <<>>)
    \o << <<"\n">> >>

\* Lines 251-254: the strings written for the best-effort error record.
FallbackWrites(display) ==
    <<Sep, HeaderLine(display), Sep, ErrUnexpected \o <<"\n", "\n">> >>

RECURSIVE Flatten(_)
Flatten(chunks) ==
    IF chunks = <<>> THEN <<>> ELSE Head(chunks) \o Flatten(Tail(chunks))

\* The first write of ws that cannot be encoded (UnicodeEncodeError), or 0.
FirstUnencodable(ws) ==
    IF \E k \in 1..Len(ws) : ~Encodable(ws[k])
    THEN CHOOSE k \in 1..Len(ws) :
            /\ ~Encodable(ws[k])
            /\ \A m \in 1..(k - 1) : Encodable(ws[m])
    ELSE 0

\* Where a run of writes can stop: [at |-> k, cost |-> c], the k-th write
\* raising (k = 0: none does), by an I/O fault (cost 1) or by an encoding
\* error (cost 0).
WriteStops(ws) ==
    LET u == FirstUnencodable(ws)
        last == IF u = 0 THEN Len(ws) ELSE u - 1
    IN  {[at |-> u, cost |-> 0]} \cup {[at |-> k, cost |-> 1] : k \in 1..last}

\* Line 171 as "dirs = [...]": the list os.walk descends from is not the
\* one assigned, nothing is pruned.
PruneDirsRebound(dirs, ignored) == dirs

\* Line 171 as a removal from the list being iterated: the entry after a
\* removed one is never tested.
RECURSIVE RemoveWhileIterating(_, _, _)
RemoveWhileIterating(dirs, ignored, i) ==
    IF i > Len(dirs) THEN dirs
    ELSE IF dirs[i] \in ignored
    THEN RemoveWhileIterating(SubSeq(dirs, 1, i - 1) \o SubSeq(dirs, i + 1, Len(dirs)),
                              ignored, i + 1)
    ELSE RemoveWhileIterating(dirs, ignored, i + 1)

PruneDirsWhileIterating(dirs, ignored) == RemoveWhileIterating(dirs, ignored, 1)

\* Line 171.
PruneDirs(dirs, ignored) == SelectSeq(dirs, LAMBDA d : d \notin ignored)

\* Line 179.
SecondaryCheck(dir, ignored) ==
    dir # abs_root_dir /\ BaseName(dir) \in ignored

\* Lines 208-210.
IsSelf(abs_file_path) ==
    \/ abs_file_path = AbsPath(ROOT_DIR \o <<CONFIG_FILENAME>>)
    \/ abs_file_path = script_path
    \/ abs_file_path = AbsPath(<<OUTPUT_FILENAME>>)

FilePath == current_dir \o <<Head(files)>>

\* Line 166 succeeds; os.walk is started at abs_root_dir.
OpenOutput ==
    /\ cpc = "open"
    /\ IsDir(DirName(AbsPath(output_file)))
    /\ cpc' = "walk"
    /\ stack' = <<abs_root_dir>>
    /\ UNCHANGED <<current_dir, files, output, collected_count, result,
                   exit_status, faults>>
    /\ UNCHANGED <<loadVars, ignoreVars, argVars, histVars>>

\* Line 166 raises IOError (no such directory, permissions): lines 259-261.
OpenFails ==
    /\ cpc = "open"
    /\ cpc' = "returned"
    /\ result' = "False"
    /\ UNCHANGED <<stack, current_dir, files, output, collected_count,
                   exit_status, faults>>
    /\ UNCHANGED <<loadVars, ignoreVars, argVars, histVars>>

\* Lines 168-184: os.walk yields the next directory; its subdirectories are
\* pruned, and its files are handed to the inner loop unless line 184 skips
\* them.
NextDir ==
    /\ cpc = "walk"
    /\ files = <<>>
    /\ stack # <<>>
    /\ LET top == Head(stack)
           l == Listing(top)
           dirs == PruneDirs(l.dirs, ignored_folders)
           skip == SecondaryCheck(top, ignored_folders)
       IN  /\ stack' = [i \in 1..Len(dirs) |-> top \o <<dirs[i]>>] \o Tail(stack)
           /\ current_dir' = top
           /\ files' = IF skip THEN <<>> ELSE l.files
           /\ visited' = Append(visited, top)
           /\ candidates' = candidates
                \o (IF skip THEN <<>> ELSE [i \in 1..Len(l.files) |-> top \o <<l.files[i]>>])
           /\ candidates_nocheck' = candidates_nocheck
                \o [i \in 1..Len(l.files) |-> top \o <<l.files[i]>>]
           /\ secondary_taken' = (secondary_taken \/ skip)
    /\ UNCHANGED <<cpc, output, collected_count, result, exit_status, faults>>
    /\ UNCHANGED <<skipped_self, skipped_pattern, opened, records>>
    /\ UNCHANGED <<loadVars, ignoreVars, argVars>>

\* Lines 205-211: the config file, the script or the output file.
SkipSelf ==
    /\ cpc = "walk"
    /\ files # <<>>
    /\ IsSelf(FilePath)
    /\ files' = Tail(files)
    /\ skipped_self' = skipped_self \cup {FilePath}
    /\ UNCHANGED <<cpc, stack, current_dir, output, collected_count, result,
                   exit_status, faults>>
    /\ UNCHANGED <<visited, candidates, candidates_nocheck, secondary_taken,
                   skipped_pattern, opened, records>>
    /\ UNCHANGED <<loadVars, ignoreVars, argVars>>

\* Lines 213-216: the base name matches an ignored pattern.
SkipIgnored ==
    /\ cpc = "walk"
    /\ files # <<>>
    /\ ~IsSelf(FilePath)
    /\ is_ignored(Head(files), ignored_patterns)
    /\ files' = Tail(files)
    /\ skipped_pattern' = skipped_pattern \cup {FilePath}
    /\ UNCHANGED <<cpc, stack, current_dir, output, collected_count, result,
                   exit_status, faults>>
    /\ UNCHANGED <<visited, candidates, candidates_nocheck, secondary_taken,
                   skipped_self, opened, records>>
    /\ UNCHANGED <<loadVars, ignoreVars, argVars>>

\* Line 219 raises UnicodeEncodeError: the path cannot be printed on a
\* standard output that encodes strictly. Line 219 is outside the try of
\* line 220, so the handler at lines 262-266 ends the traversal.
PrintFails ==
    /\ cpc = "walk"
    /\ files # <<>>
    /\ stdout_strict
    /\ ~Encodable(output_display_path(FilePath))
    /\ ~IsSelf(FilePath)
    /\ ~is_ignored(Head(files), ignored_patterns)
    /\ cpc' = "returned"
    /\ result' = "False"
    /\ UNCHANGED <<stack, current_dir, files, output, collected_count,
                   exit_status, faults>>
    /\ UNCHANGED <<loadVars, ignoreVars, argVars, histVars>>

\* Lines 219-256: the file is read and its record is written; a write that
\* raises leaves what was written before it and is followed by the
\* best-effort error record, whose own failure is only logged.
ProcessFile ==
    /\ cpc = "walk"
    /\ files # <<>>
    /\ ~IsSelf(FilePath)
    /\ ~is_ignored(Head(files), ignored_patterns)
    /\ ~(stdout_strict /\ ~Encodable(output_display_path(FilePath)))
    /\ \E rd \in ReadOutcomes(FilePath) :
         LET display == output_display_path(FilePath)
             ws == PrimaryWrites(display, rd.content)
             es == FallbackWrites(display)
         IN  \E w \in WriteStops(ws), e \in WriteStops(es) :
               LET failed == w.at # 0
                   cost == rd.cost + w.cost + (IF failed THEN e.cost ELSE 0)
                   written ==
                       IF ~failed THEN Flatten(ws)
                       ELSE Flatten(SubSeq(ws, 1, w.at - 1))
                            \o (IF e.at = 0 THEN Flatten(es)
                                ELSE Flatten(SubSeq(es, 1, e.at - 1)))
                   from == Len(output) + 1
                             + (IF failed THEN Len(Flatten(SubSeq(ws, 1, w.at - 1))) ELSE 0)
               IN  /\ faults + cost <= MaxFaults
                   /\ (~failed => e.at = 0)
                   /\ faults' = faults + cost
                   /\ output' = output \o written
                   /\ collected_count' = IF failed THEN collected_count
                                         ELSE collected_count + 1
                   /\ records' =
                        IF failed /\ e.at # 0 THEN records
                        ELSE Append(records,
                               [path |-> FilePath, display |-> display,
                                content |-> IF failed THEN ErrUnexpected
                                            ELSE rd.content.text,
                                from |-> from, to |-> Len(output) + Len(written),
                                fallback |-> failed])
    /\ files' = Tail(files)
    /\ opened' = opened \cup {FilePath}
    /\ UNCHANGED <<cpc, stack, current_dir, result, exit_status>>
    /\ UNCHANGED <<visited, candidates, candidates_nocheck, secondary_taken,
                   skipped_self, skipped_pattern>>
    /\ UNCHANGED <<loadVars, ignoreVars, argVars>>

\* Lines 268-270: os.walk is exhausted.
WalkDone ==
    /\ cpc = "walk"
    /\ files = <<>>
    /\ stack = <<>>
    /\ cpc' = "returned"
    /\ result' = "True"
    /\ UNCHANGED <<stack, current_dir, files, output, collected_count,
                   exit_status, faults>>
    /\ UNCHANGED <<loadVars, ignoreVars, argVars, histVars>>

\* Lines 272-279: the value collect_code returned is dropped and the
\* interpreter ends the script with status 0.
MainExit ==
    /\ cpc = "returned"
    /\ cpc' = "exited"
    /\ exit_status' = 0
    /\ UNCHANGED <<stack, current_dir, files, output, collected_count, result,
                   faults>>
    /\ UNCHANGED <<loadVars, ignoreVars, argVars, histVars>>

\* ------------------------------------------------------------ specifications
\* The sets collect_code is called with: what load_ignore_config returns
\* without a configuration file, and with one that adds a folder and glob
\* patterns.
IgnoreChoices ==
    { [folders |-> DEFAULT_IGNORED_FOLDERS,
       patterns |-> LowerSet(DEFAULT_IGNORED_PATTERNS)]
    , [folders |-> DEFAULT_IGNORED_FOLDERS \cup {N_pkg},
       patterns |-> LowerSet(DEFAULT_IGNORED_PATTERNS)]
    , [folders |-> DEFAULT_IGNORED_FOLDERS,
       patterns |-> LowerSet(DEFAULT_IGNORED_PATTERNS)
                    \cup {<<"p","k","?">>, <<"[","x","-","z","]",".","b","?","n">>}]
    }

\* Where collect_code runs and the directory it is given.
WhereChoices ==
    { [cwd |-> <<N_proj>>, root_dir |-> ROOT_DIR]
    , [cwd |-> <<N_build>>, root_dir |-> ROOT_DIR]
    , [cwd |-> <<>>, root_dir |-> ROOT_DIR]
    , [cwd |-> <<N_proj>>, root_dir |-> <<N_pkg>>]
    }

LoadIdle ==
    /\ default_folders = DEFAULT_IGNORED_FOLDERS
    /\ default_patterns = DEFAULT_IGNORED_PATTERNS
    /\ config_exists = FALSE
    /\ config_lines = <<>>
    /\ current_section = "None"
    /\ line_num = 0
    /\ lpc = "idle"
    /\ load_result = NoResult

CollectStart ==
    /\ cpc = "open"
    /\ stack = <<>>
    /\ current_dir = <<>>
    /\ files = <<>>
    /\ output = <<>>
    /\ collected_count = 0
    /\ result = "None"
    /\ exit_status = -1
    /\ faults = 0
    /\ visited = <<>>
    /\ candidates = <<>>
    /\ candidates_nocheck = <<>>
    /\ secondary_taken = FALSE
    /\ skipped_self = {}
    /\ skipped_pattern = {}
    /\ opened = {}
    /\ records = <<>>

\* A call of collect_code, from the entry point (root_dir = ROOT_DIR,
\* output_file = OUTPUT_FILENAME) or from another caller, in a process whose
\* directory is /proj, /build or /.
Init ==
    /\ LoadIdle
    /\ \E ic \in IgnoreChoices :
         /\ ignored_folders = ic.folders
         /\ ignored_patterns = ic.patterns
    /\ \E w \in WhereChoices :
         /\ cwd = w.cwd
         /\ root_dir = w.root_dir
    /\ stdout_strict \in BOOLEAN
    /\ output_file \in {<<OUTPUT_FILENAME>>, <<N_out>>, <<N_nodir, N_out>>}
    /\ script_path = cwd \o <<N_cc>>
    /\ bad_name \in BOOLEAN
    /\ (bad_name \/ stdout_strict)
    /\ CollectStart

Next ==
    \/ OpenOutput
    \/ OpenFails
    \/ NextDir
    \/ SkipSelf
    \/ SkipIgnored
    \/ PrintFails
    \/ ProcessFile
    \/ WalkDone
    \/ MainExit

Spec == Init /\ [][Next]_vars

\* A call of load_ignore_config on a configuration file of at most MaxLines
\* lines, or on none.
InitLoad ==
    /\ \E d \in DefaultChoices :
         /\ default_folders = d.folders
         /\ default_patterns = d.patterns
         /\ ignored_folders = d.folders
         /\ ignored_patterns = LowerSet(d.patterns)
    /\ config_exists \in BOOLEAN
    /\ config_lines \in SeqsUpTo(ConfigLineChoices, MaxLines)
    /\ (~config_exists => config_lines = <<>>)
    /\ current_section = "None"
    /\ line_num = 0
    /\ lpc = "start"
    /\ load_result = NoResult
    /\ cwd = <<>>
    /\ stdout_strict = FALSE
    /\ root_dir = ROOT_DIR
    /\ output_file = <<OUTPUT_FILENAME>>
    /\ script_path = <<N_cc>>
    /\ bad_name = FALSE
    /\ CollectStart

NextLoad ==
    \/ LoadMissing
    \/ LoadOpen
    \/ LoadOpenFails
    \/ LoadLine
    \/ LoadReadFails
    \/ LoadDecodeFails
    \/ LoadDone

SpecLoad == InitLoad /\ [][NextLoad]_vars

\* ------------------------------------------------------------ properties
RecordIdx == 1..Len(records)

\* The candidates the inner loop has dealt with (skipped or processed).
Handled ==
    {candidates[i] : i \in 1..(Len(candidates) - Len(files))}

\* Whether a directory strictly between the root and the last component of
\* path (the file's own name excluded) bears an ignored name.
BeneathIgnored(path) ==
    \E k \in (Len(abs_root_dir) + 1)..(Len(path) - 1) : path[k] \in ignored_folders

\* Whether the directory is, or lies beneath, a directory below the root that
\* bears an ignored name.
InIgnored(dir) ==
    \E k \in (Len(abs_root_dir) + 1)..Len(dir) : dir[k] \in ignored_folders

\* C1: no record, no file handed to the loop and no file opened lies beneath
\* a directory (at any depth below the root) whose base name is in
\* ignored_folders, and os.walk never yields such a directory or one of its
\* descendants: it is pruned before the descent.
C1_NothingBeneathIgnoredFolder ==
    /\ \A i \in RecordIdx : ~BeneathIgnored(records[i].path)
    /\ \A i \in 1..Len(candidates) : ~BeneathIgnored(candidates[i])
    /\ \A p \in opened : ~BeneathIgnored(p)
    /\ \A i \in 1..Len(visited) : ~InIgnored(visited[i])
    /\ \A i \in 1..Len(stack) : ~InIgnored(stack[i])

\* A finished run that collected something, whose walk met, in a directory
\* below the root, a subdirectory with an ignored name that itself holds a
\* file (pkg/build/w.py), and whose root holds an ignored directory with a file
\* two levels down (build/sub/y.py).
C1_Witness ==
    /\ cpc = "exited"
    /\ result = "True"
    /\ records # <<>>
    /\ root_dir = ROOT_DIR
    /\ \E i \in 1..Len(visited) :
         /\ visited[i] # abs_root_dir
         /\ \E k \in 1..Len(Listing(visited[i]).dirs) :
              /\ Listing(visited[i]).dirs[k] \in ignored_folders
              /\ Listing(visited[i] \o <<Listing(visited[i]).dirs[k]>>).files # <<>>
    /\ N_build \in ignored_folders
    /\ Listing(abs_root_dir \o <<N_build, N_sub>>).files # <<>>

\* Glob match of the lower-cased base name against the ignored patterns.
BaseNameMatches(path) ==
    LET lowered == Lower(BaseName(path))
    IN  \E pattern \in ignored_patterns : FnMatch(lowered, pattern)

\* The paths of the records, in the order written.
RecordPaths(recs) == [i \in 1..Len(recs) |-> recs[i].path]

\* C2: in every step of the inner loop, if the lower-cased base name of the
\* file at hand matches an ignored pattern then the step neither opens the
\* file nor writes a record; a file that is not the config, script or output
\* file is skipped at line 216 exactly when its base name matches, whatever
\* its directories are called; and no step opens, records or skips any file
\* but the one at hand, so that no matching file is ever opened or recorded.
C2_PatternMatchSkipsFile ==
    [][ IF cpc = "walk" /\ files # <<>>
        THEN LET matches == BaseNameMatches(FilePath)
             IN  /\ matches => (opened' = opened /\ records' = records)
                 /\ opened' \in {opened, opened \cup {FilePath}}
                 /\ RecordPaths(records')
                      \in {RecordPaths(records), Append(RecordPaths(records), FilePath)}
                 /\ skipped_pattern' \in {skipped_pattern, skipped_pattern \cup {FilePath}}
                 /\ (files' = Tail(files) /\ ~IsSelf(FilePath)) =>
                      (matches <=> FilePath \in skipped_pattern')
                 /\ FilePath \in skipped_pattern' => matches
        ELSE /\ opened' = opened
             /\ records' = records
             /\ skipped_pattern' = skipped_pattern
      ]_vars

\* A finished run that skipped B.LOG (matched by *.log once lower-cased) and
\* z.bin (matched by [x-z].b?n), and wrote a record for a file in the directory
\* pkg although pk? matches that directory's name.
C2_Witness ==
    /\ cpc = "exited"
    /\ result = "True"
    /\ cwd \o <<N_BLOG>> \in skipped_pattern
    /\ cwd \o <<N_pkg, N_zbin>> \in skipped_pattern
    /\ <<"p","k","?">> \in ignored_patterns
    /\ \E i \in RecordIdx : records[i].path = cwd \o <<N_pkg, OUTPUT_FILENAME>>

\* C3: the output never holds a record for the file at output_file, for the
\* ignore-config file or for the running script.
C3_SelfFilesNeverCollected ==
    \A i \in RecordIdx :
        /\ records[i].path # AbsPath(output_file)
        /\ records[i].path # AbsPath(ROOT_DIR \o <<CONFIG_FILENAME>>)
        /\ records[i].path # script_path

\* The kind of a configuration line: blank or comment ("skip"), a recognized
\* header, another bracketed line ("other"), or an entry.
LineKind(raw) ==
    LET line == Strip(raw)
    IN  IF line = <<>> \/ line[1] = "#" THEN "skip"
        ELSE IF Lower(line) = <<"[","f","o","l","d","e","r","s","]">> THEN "folders"
        ELSE IF Lower(line) = <<"[","p","a","t","t","e","r","n","s","]">> THEN "patterns"
        ELSE IF line[1] = "[" /\ line[Len(line)] = "]" THEN "other"
        ELSE "entry"

\* The section in force when line i is read: that of the most recent
\* bracketed line before it, none after an unrecognized one or before any.
ActiveSection(lines, i) ==
    LET headers == {j \in 1..(i - 1) : LineKind(lines[j]) \in {"folders", "patterns", "other"}}
    IN  IF headers = {} THEN "None"
        ELSE LET last == CHOOSE j \in headers : \A m \in headers : m <= j
             IN  IF LineKind(lines[last]) = "other" THEN "None"
                 ELSE LineKind(lines[last])

EntriesOf(lines, n, section) ==
    {Strip(lines[i]) : i \in {k \in 1..n : /\ LineKind(lines[k]) = "entry"
                                          /\ ActiveSection(lines, k) = section}}

\* C4: after any number of lines read, and in what is returned for a file read
\* without error, folders = default_folders with the trimmed entry lines of the
\* folders sections, patterns = lower-cased default_patterns with the
\* lower-cased entry lines of the patterns sections; the defaults (patterns
\* lower-cased) are a subset of the result.
C4_ConfigMergesIntoDefaults ==
    /\ lpc = "reading" =>
         /\ ignored_folders =
              default_folders \cup EntriesOf(config_lines, line_num, "folders")
         /\ ignored_patterns =
              LowerSet(default_patterns)
              \cup LowerSet(EntriesOf(config_lines, line_num, "patterns"))
         /\ current_section = ActiveSection(config_lines, line_num + 1)
    /\ (lpc = "returned" /\ ~load_result.error /\ config_exists) =>
         /\ load_result.folders =
              default_folders \cup EntriesOf(config_lines, Len(config_lines), "folders")
         /\ load_result.patterns =
              LowerSet(default_patterns)
              \cup LowerSet(EntriesOf(config_lines, Len(config_lines), "patterns"))
         /\ default_folders \subseteq load_result.folders
         /\ LowerSet(default_patterns) \subseteq load_result.patterns

\* A file read to its end without error: an entry before any header, which
\* is dropped, then a [patterns] header and an entry with upper-case letters,
\* which is added lower-cased.
C4_Witness ==
    /\ lpc = "returned"
    /\ ~load_result.error
    /\ config_exists
    /\ Len(config_lines) = 3
    /\ LineKind(config_lines[1]) = "entry"
    /\ LineKind(config_lines[2]) = "patterns"
    /\ LineKind(config_lines[3]) = "entry"
    /\ load_result.folders = default_folders
    /\ load_result.patterns # LowerSet(default_patterns)
    /\ Lower(Strip(config_lines[3])) # Strip(config_lines[3])
    /\ Lower(Strip(config_lines[3])) \in load_result.patterns

\* C5: load_ignore_config never raises, and whenever an error occurred it
\* returns exactly the defaults.
C5_LoadNeverRaises ==
    /\ lpc # "raised"
    /\ load_result.status # "raised"
    /\ (load_result.status = "returned" /\ load_result.error) =>
         /\ load_result.folders = default_folders
         /\ load_result.patterns = LowerSet(default_patterns)

\* C6: once the process has exited, its status is non-zero if collect_code
\* returned failure and zero if it returned success.
C6_ExitStatusReflectsResult ==
    cpc = "exited" =>
        /\ result = "False" => exit_status # 0
        /\ result = "True" => exit_status = 0

RecordsOf(path) == {i \in RecordIdx : records[i].path = path}

\* C7: every file the loop has dealt with that was skipped neither as
\* config, script or output file nor by pattern has exactly one record; the
\* traversal is not cut short: once the output file is open, collect_code
\* returns only with every directory and file dealt with, and returns success.
C7_OneRecordPerFileAndNoAbort ==
    /\ \A p \in Handled :
         (~IsSelf(p) /\ ~BaseNameMatches(p)) => Cardinality(RecordsOf(p)) = 1
    /\ (cpc \in {"returned", "exited"} /\ visited # <<>>) =>
         /\ result = "True"
         /\ files = <<>>
         /\ stack = <<>>

\* The text of a record, as the format describes it.
Line70 == [i \in 1..70 |-> "="]

RecordText(display, content) ==
    Line70 \o <<"\n">>
    \o <<"F","i","l","e",":"," ">> \o display \o <<"\n">>
    \o Line70 \o <<"\n">>
    \o content
    \o (IF content # <<>> /\ content[Len(content)] = "\n" THEN <<>> ELSE <<"\n">>)
    \o <<"\n">>

\* C8: every record in the output is a line of 70 "=", the line
\* "File: <display path>", a line of 70 "=", the content, a newline if and
\* only if the content does not end with one, and one more newline; with no
\* failed write, the records follow one another from the start of the output
\* to its end.
C8_RecordFormat ==
    /\ \A i \in RecordIdx :
         /\ records[i].to <= Len(output)
         /\ SubSeq(output, records[i].from, records[i].to)
              = RecordText(records[i].display, records[i].content)
         /\ records[i].display = output_display_path(records[i].path)
    /\ (\A i \in RecordIdx : ~records[i].fallback) /\ Len(records) = Cardinality(opened) =>
         /\ \A i \in RecordIdx :
              records[i].from = (IF i = 1 THEN 1 ELSE records[i - 1].to + 1)
         /\ (records # <<>> => records[Len(records)].to = Len(output))
         /\ (records = <<>> => output = <<>>)

\* A finished run with a record whose content ends with a newline, one whose
\* content does not, and one whose content is empty.
C8_Witness ==
    /\ cpc = "exited"
    /\ result = "True"
    /\ \E i \in RecordIdx :
         /\ records[i].content # <<>>
         /\ records[i].content[Len(records[i].content)] = "\n"
    /\ \E i \in RecordIdx :
         /\ records[i].content # <<>>
         /\ records[i].content[Len(records[i].content)] # "\n"
         /\ i < Len(records)
    /\ \E i \in RecordIdx : records[i].content = <<>>

\* C9: the counter equals the number of records written so far.
C9_CountEqualsRecords ==
    collected_count = Len(records)

\* C10: line 179's test is never true: line 184 is never taken, no directory
\* os.walk yields satisfies the test, and the files handed to the inner loop
\* are those a walk without lines 179-184 hands over.
C10_SecondaryCheckRedundant ==
    /\ ~secondary_taken
    /\ \A i \in 1..Len(visited) : ~SecondaryCheck(visited[i], ignored_folders)
    /\ candidates = candidates_nocheck

\* A finished run from a root whose own base name is ignored (build), with a
\* record for a file of the root, and with an ignored directory met and pruned.
C10_Witness ==
    /\ cpc = "exited"
    /\ result = "True"
    /\ BaseName(abs_root_dir) \in ignored_folders
    /\ \E i \in RecordIdx : DirName(records[i].path) = abs_root_dir
    /\ \E k \in 1..Len(Listing(abs_root_dir).dirs) :
         Listing(abs_root_dir).dirs[k] \in ignored_folders
    /\ Len(visited) > 1

====
